---- MODULE Spec2Model ----
(***************************************************************************)
(* WeatherStat_JMA: the station-master index reader (read_index.py) and    *)
(* the portal scrapers (read_weather.py), as one state machine.  A         *)
(* behaviour is one call of one entry point: Init chooses the entry point  *)
(* (fn) and its input, the actions are the steps of that function, and pc  *)
(* ends at "done" or at the name of the exception the call raised.         *)
(*                                                                         *)
(* Text is a sequence of one-character strings; a byte string is a         *)
(* sequence of integers 0..255; a decoded Shift_JIS character is the       *)
(* sequence of the bytes that encode it (<<65>> is "A", <<147, 140>> is    *)
(* the kanji encoded 0x93 0x8C).                                           *)
(***************************************************************************)
EXTENDS Integers, Sequences, FiniteSets, TLC

VARIABLES
    fn,        \* the entry point this behaviour calls
    pc,        \* position in it: a label, "done", or the exception raised
    ret,       \* the value returned (<<>> until pc = "done")
    \* read_smaster
    file,      \* the lines the binary file iterator yields
    lineno,    \* number of lines taken from the iterator
    line,      \* the current line
    start,     \* byte offset of the next field
    col,       \* index into SMASTER_COLLEN of the next field
    row,       \* fields of the current line
    row_list,  \* rows of the lines finished
    \* get_stations
    soup,      \* the station containers of the response, in document order
    stations,  \* station id -> container, as (key, value) pairs in order
    parsed,    \* station id -> record, as (key, value) pairs in order
    st_i,      \* number of records the update loop has finished
    \* parse_number
    num_str,   \* the argument
    \* get_weather_as_csv
    args,      \* the arguments of the call
    params,    \* the form payload posted to CSVDL_URL
    \* read_csv
    csv_text,  \* the argument: the decoded response
    lines,     \* csv_text.split("\n")
    buf,       \* the text handed to pd.read_csv
    hdr4,      \* df_.columns as pd.read_csv made them
    df_cols,   \* df_.columns
    df_rows,   \* the data records of df_
    \* get_weather_from_html
    page,      \* the response: its table "tablefix1", if any, and the tr in it
    rows,      \* the tr elements with the class and style looked for
    data,      \* the cell texts kept, row by row
    ht_i,      \* number of rows the loop has finished
    \* get_elements
    aggrg_periods,  \* the argument
    tds,       \* the td elements of the response, in document order
    items,     \* element value -> entry
    last_item,      \* what parse_items returned for the td just handled
    el_i       \* number of td elements the loop has passed

smVars == <<file, lineno, line, start, col, row, row_list>>

stVars == <<soup, stations, parsed, st_i>>

pnVars == <<num_str>>

dlVars == <<args, params>>

rcVars == <<csv_text, lines, buf, hdr4, df_cols, df_rows>>

htVars == <<page, rows, data, ht_i>>

elVars == <<aggrg_periods, tds, items, last_item, el_i>>

vars == <<fn, pc, ret, smVars, stVars, pnVars, dlVars, rcVars, htVars, elVars>>

\* what each entry point leaves alone
NotSm == <<stVars, pnVars, dlVars, rcVars, htVars, elVars>>

NotSt == <<smVars, pnVars, dlVars, rcVars, htVars, elVars>>

NotPn == <<smVars, stVars, dlVars, rcVars, htVars, elVars>>

NotDl == <<smVars, stVars, pnVars, htVars, elVars>>

NotRc == <<smVars, stVars, pnVars, htVars, elVars>>

NotHt == <<smVars, stVars, pnVars, dlVars, rcVars, elVars>>

NotEl == <<smVars, stVars, pnVars, dlVars, rcVars, htVars>>

(***************************************************************************)
(* Python built-ins the code relies on                                     *)
(***************************************************************************)
Min(a, b) == IF a <= b THEN a ELSE b

\* s[a:b] for 0 <= a <= b: both ends are clipped to len(s), no IndexError
PySlice(s, a, b) == SubSeq(s, Min(a, Len(s)) + 1, Min(b, Len(s)))

\* bytes that are a complete Shift_JIS character: ASCII and half-width kana
IsSingle(b) == b \in 0..127 \/ b \in 161..223

\* first bytes of a double-byte character
IsLead(b) == b \in 129..132 \/ b \in 136..159 \/ b \in 224..234

\* second bytes that make an assigned character with lead byte l; row 0x81
\* (symbols) has unassigned gaps, the kanji rows 0x8C and 0x93 have none
TrailOK(l, t) ==
    /\ t \in 64..126 \/ t \in 128..252
    /\ l = 129 => \/ t \in 64..126 \/ t \in 128..172 \/ t \in 184..191
                  \/ t \in 200..206 \/ t \in 218..232 \/ t \in 240..247
                  \/ t = 252

RECURSIVE DecodeFrom(_, _)
DecodeFrom(bs, i) ==
    IF i > Len(bs) THEN [ok |-> TRUE, chars |-> <<>>]
    ELSE IF IsSingle(bs[i])
    THEN LET r == DecodeFrom(bs, i + 1)
         IN  [ok |-> r.ok, chars |-> << <<bs[i]>> >> \o r.chars]
    ELSE IF IsLead(bs[i]) /\ i < Len(bs) /\ TrailOK(bs[i], bs[i + 1])
    THEN LET r == DecodeFrom(bs, i + 2)
         IN  [ok |-> r.ok, chars |-> << <<bs[i], bs[i + 1]>> >> \o r.chars]
    ELSE [ok |-> FALSE, chars |-> <<>>]

\* codecs.decode(bs, "Shift_JIS"): strict, so ok = FALSE is UnicodeDecodeError
Decode(bs) == DecodeFrom(bs, 1)

\* str.isspace() of one decoded character (0x81 0x40 is U+3000)
IsSpace(c) == c \in {<<9>>, <<10>>, <<11>>, <<12>>, <<13>>, <<28>>, <<29>>,
                     <<30>>, <<31>>, <<32>>, <<129, 64>>}

RECURSIVE LStrip(_)
LStrip(cs) == IF cs = <<>> \/ ~IsSpace(Head(cs)) THEN cs ELSE LStrip(Tail(cs))

RECURSIVE RStrip(_)
RStrip(cs) ==
    IF cs = <<>> \/ ~IsSpace(cs[Len(cs)]) THEN cs
    ELSE RStrip(SubSeq(cs, 1, Len(cs) - 1))

\* str.strip()
Strip(cs) == RStrip(LStrip(cs))

\* the character U+FF1A, which the station titles use for ":"
FullWidthColon == "U+FF1A"

\* Python values other than text: None, True and False
PyNone == <<"None">>

PyBool(b) == IF b THEN <<"True">> ELSE <<"False">>

\* str.isspace() of one character of text
IsWs(c) == c \in {" ", "\t", "\n", "\r"}

IsDigit(c) == c \in {"0", "1", "2", "3", "4", "5", "6", "7", "8", "9"}

DigitVal(c) ==
    CASE c = "0" -> 0 [] c = "1" -> 1 [] c = "2" -> 2 [] c = "3" -> 3
      [] c = "4" -> 4 [] c = "5" -> 5 [] c = "6" -> 6 [] c = "7" -> 7
      [] c = "8" -> 8 [] c = "9" -> 9

\* index of the first character at or after i that is not whitespace
RECURSIVE SkipWs(_, _)
SkipWs(cs, i) == IF i <= Len(cs) /\ IsWs(cs[i]) THEN SkipWs(cs, i + 1) ELSE i

\* scan a run of digits from i, single underscores allowed between digits;
\* n is the number of digits read, value their decimal value
RECURSIVE ScanDigits(_, _, _, _)
ScanDigits(cs, i, val, n) ==
    IF i <= Len(cs) /\ IsDigit(cs[i])
    THEN ScanDigits(cs, i + 1, val * 10 + DigitVal(cs[i]), n + 1)
    ELSE IF n > 0 /\ i < Len(cs) /\ cs[i] = "_" /\ IsDigit(cs[i + 1])
    THEN ScanDigits(cs, i + 1, val, n)
    ELSE [next |-> i, value |-> val, n |-> n]

IsSign(c) == c \in {"+", "-"}

\* index after an optional sign at i, and the sign read
ScanSign(cs, i) ==
    IF i <= Len(cs) /\ IsSign(cs[i])
    THEN [next |-> i + 1, sign |-> IF cs[i] = "-" THEN -1 ELSE 1]
    ELSE [next |-> i, sign |-> 1]

\* int() that does not skip the whitespace around the number
PyInt_NoStrip(cs) ==
    LET sg == ScanSign(cs, 1)
        d  == ScanDigits(cs, sg.next, 0, 0)
    IN  IF d.n > 0 /\ d.next > Len(cs)
        THEN [ok |-> TRUE, kind |-> "int", value |-> sg.sign * d.value]
        ELSE [ok |-> FALSE, kind |-> "ValueError", value |-> 0]

\* int(text): ok = FALSE is ValueError
PyInt(cs) ==
    LET sg == ScanSign(cs, SkipWs(cs, 1))
        d  == ScanDigits(cs, sg.next, 0, 0)
    IN  IF d.n > 0 /\ SkipWs(cs, d.next) > Len(cs)
        THEN [ok |-> TRUE, kind |-> "int", value |-> sg.sign * d.value]
        ELSE [ok |-> FALSE, kind |-> "ValueError", value |-> 0]

Lower(c) ==
    CASE c = "I" -> "i" [] c = "N" -> "n" [] c = "F" -> "f" [] c = "A" -> "a"
      [] c = "T" -> "t" [] c = "Y" -> "y" [] c = "E" -> "e" [] OTHER -> c

\* the text has word (in any case) at i
HasWord(cs, i, word) ==
    /\ i + Len(word) - 1 <= Len(cs)
    /\ \A j \in 1..Len(word) : Lower(cs[i + j - 1]) = word[j]

\* float(text): the value is kept as sign * mant * 10^exp, or as inf / nan
PyFloat(cs) ==
    LET sg   == ScanSign(cs, SkipWs(cs, 1))
        i    == sg.next
        fail == [ok |-> FALSE, kind |-> "ValueError", value |-> 0]
        word == IF HasWord(cs, i, <<"i", "n", "f", "i", "n", "i", "t", "y">>) THEN 8
                ELSE IF HasWord(cs, i, <<"i", "n", "f">>) THEN 3
                ELSE IF HasWord(cs, i, <<"n", "a", "n">>) THEN 3
                ELSE 0
        ip   == ScanDigits(cs, i, 0, 0)
        dot  == ip.next <= Len(cs) /\ cs[ip.next] = "."
        fp   == IF dot THEN ScanDigits(cs, ip.next + 1, ip.value, 0)
                ELSE [next |-> ip.next, value |-> ip.value, n |-> 0]
        hasE == fp.next <= Len(cs) /\ Lower(cs[fp.next]) = "e"
        xs   == ScanSign(cs, fp.next + 1)
        xp   == ScanDigits(cs, xs.next, 0, 0)
        end  == IF hasE THEN xp.next ELSE fp.next
    IN  IF word > 0
        THEN IF SkipWs(cs, i + word) > Len(cs)
             THEN [ok |-> TRUE, kind |-> "float",
                   value |-> [sign |-> sg.sign,
                              special |-> IF Lower(cs[i]) = "n" THEN "nan" ELSE "inf"]]
             ELSE fail
        ELSE IF /\ ip.n + fp.n > 0
                /\ hasE => xp.n > 0
                /\ SkipWs(cs, end) > Len(cs)
        THEN [ok |-> TRUE, kind |-> "float",
              value |-> [sign |-> sg.sign, mant |-> fp.value,
                         exp |-> (IF hasE THEN xs.sign * xp.value ELSE 0) - fp.n]]
        ELSE fail

DigitChar(d) == <<"0", "1", "2", "3", "4", "5", "6", "7", "8", "9">>[d + 1]

\* str(n) of an int, as an f-string formats it
RECURSIVE ToStr(_)
ToStr(n) ==
    IF n < 0 THEN <<"-">> \o ToStr(-n)
    ELSE IF n < 10 THEN <<DigitChar(n)>>
    ELSE ToStr(n \div 10) \o <<DigitChar(n % 10)>>

\* sep.join(parts)
RECURSIVE Join(_, _)
Join(sep, parts) ==
    IF parts = <<>> THEN <<>>
    ELSE IF Len(parts) = 1 THEN parts[1]
    ELSE parts[1] \o sep \o Join(sep, Tail(parts))

RECURSIVE TextLStrip(_)
TextLStrip(cs) ==
    IF cs = <<>> \/ ~IsWs(Head(cs)) THEN cs ELSE TextLStrip(Tail(cs))

RECURSIVE TextRStrip(_)
TextRStrip(cs) ==
    IF cs = <<>> \/ ~IsWs(cs[Len(cs)]) THEN cs
    ELSE TextRStrip(SubSeq(cs, 1, Len(cs) - 1))

\* str.strip() of text
TextStrip(cs) == TextRStrip(TextLStrip(cs))

\* text.split(sep) for a one-character separator
RECURSIVE Split(_, _)
Split(cs, sep) ==
    IF \A i \in 1..Len(cs) : cs[i] # sep THEN <<cs>>
    ELSE LET i == CHOOSE i \in 1..Len(cs) :
                    cs[i] = sep /\ \A j \in 1..(i - 1) : cs[j] # sep
         IN  <<SubSeq(cs, 1, i - 1)>> \o Split(SubSeq(cs, i + 1, Len(cs)), sep)

\* text.replace(a, b) for one-character a and b
Replace(cs, a, b) == [i \in 1..Len(cs) |-> IF cs[i] = a THEN b ELSE cs[i]]

\* a dict is a function from its keys; {**a, **b} and a.update(b)
Merge(a, b) ==
    [k \in (DOMAIN a) \cup (DOMAIN b) |-> IF k \in DOMAIN b THEN b[k] ELSE a[k]]

\* d[key] = value
Put(d, key, value) == Merge(d, [k \in {key} |-> value])

\* an insertion-ordered dict as a sequence of (key, value) records
HasKey(od, key) == \E i \in 1..Len(od) : od[i].key = key

OPut(od, key, value) ==
    IF HasKey(od, key)
    THEN [i \in 1..Len(od) |->
            IF od[i].key = key THEN [key |-> key, value |-> value] ELSE od[i]]
    ELSE Append(od, [key |-> key, value |-> value])

(***************************************************************************)
(* read_index.py                                                           *)
(***************************************************************************)
SMASTER_COLLEN ==
    <<3, 1, 1, 1, 1, 1, 1, 1, 1, 1, 2, 1, 1, 8, 12, 6, 7, 5, 5, 3, 1, 1, 8,
      8, 12, 18, 8, 5, 12, 1, 1, 1, 1, 1, 1, 5>>

\* SMASTER_COLNAME has one name per width
NumFields == Len(SMASTER_COLLEN)

RECURSIVE SumTo(_, _)
SumTo(ws, k) == IF k = 0 THEN 0 ELSE ws[k] + SumTo(ws, k - 1)

\* total record width
RecLen == SumTo(SMASTER_COLLEN, NumFields)

\* ---- the files the reader is run on ----
MaxLines == 2      \* lines in a file of several lines
MaxShift == 1      \* bytes a record may be displaced by
ExtraLen == 2      \* bytes a line may be longer than a record

Rep(b, n) == [i \in 1..n |-> b]

\* the bytes of one field of width w
FieldBytes(kind, w) ==
    CASE kind = "blank" -> Rep(32, w)
      [] kind = "left"  -> IF w >= 3 THEN <<65, 32, 65>> \o Rep(32, w - 3)
                           ELSE <<65>> \o Rep(32, w - 1)
      [] kind = "right" -> Rep(32, w - 1) \o <<49>>
      [] kind = "kana"  -> Rep(177, w - 1) \o <<32>>
      [] kind = "kanji" ->
            [i \in 1..w |->
                IF i = w /\ w % 2 = 1 THEN 32
                ELSE IF w >= 4 /\ i >= w - (w % 2) - 1
                     THEN (IF i % 2 = 1 THEN 129 ELSE 64)
                     ELSE (IF i % 2 = 1 THEN 147 ELSE 140)]

Patterns == {"ascii", "mixed", "kanji"}

FieldKind(p, k) ==
    CASE p = "ascii" -> IF k % 2 = 1 THEN "left" ELSE "right"
      [] p = "kanji" -> "kanji"
      [] p = "mixed" -> IF k = 14 THEN "kana"
                        ELSE IF k \in {25, 26, 27} THEN "kanji"
                        ELSE IF k \in {2, 13, 29, 36} THEN "blank"
                        ELSE IF k = 15 THEN "left"
                        ELSE "right"

RECURSIVE RecordBytes(_, _)
RecordBytes(p, k) ==
    IF k = 0 THEN <<>>
    ELSE RecordBytes(p, k - 1) \o FieldBytes(FieldKind(p, k), SMASTER_COLLEN[k])

\* a line: a record displaced by s bytes, cut to n bytes, with its terminator
MkLine(p, s, n, term) ==
    PySlice(Rep(32, s) \o RecordBytes(p, NumFields), 0, n) \o term

AllLines(terms) ==
    {MkLine(p, s, n, t) : p \in Patterns, s \in 0..MaxShift,
                          n \in 0..(RecLen + ExtraLen), t \in terms} \ {<<>>}

FewLines ==
    {MkLine(p, 0, n, <<10>>) : p \in {"mixed", "kanji"}, n \in {23, RecLen}}

RECURSIVE SeqsOf(_, _)
SeqsOf(S, n) ==
    IF n = 0 THEN {<<>>}
    ELSE {Append(q, x) : q \in SeqsOf(S, n - 1), x \in S}

\* the iterator yields lines ending in "\n"; only the last may lack it
Files ==
    {<<>>} \cup {<<l>> : l \in AllLines({<<10>>, <<13, 10>>, <<>>})}
           \cup UNION {SeqsOf(FewLines, n) : n \in 2..MaxLines}

SmasterIdle ==
    /\ file = <<>> /\ lineno = 0 /\ line = <<>> /\ start = 0 /\ col = 0
    /\ row = <<>> /\ row_list = <<>>

\* for line in file: start = 0; row = []
SmNextLine ==
    /\ fn = "read_smaster" /\ pc = "for_line" /\ lineno < Len(file)
    /\ lineno' = lineno + 1
    /\ line' = file[lineno + 1]
    /\ start' = 0 /\ row' = <<>> /\ col' = 1
    /\ pc' = "for_width"
    /\ UNCHANGED <<fn, ret, file, row_list, NotSm>>

\* a slice that runs past the end of the line is an error
FieldOf_NoClip(ln, st, width) ==
    IF st + width > Len(ln) THEN [ok |-> FALSE, chars |-> <<>>]
    ELSE Decode(PySlice(ln, st, st + width))

\* one iteration of: for width in SMASTER_COLLEN
FieldOf(ln, st, width) == Decode(PySlice(ln, st, st + width))

\* the offset is not advanced by the width
NextStart_ByOne(st, width) == st + 1

NextStart(st, width) == st + width

SmField ==
    /\ fn = "read_smaster" /\ pc = "for_width" /\ col <= NumFields
    /\ LET width == SMASTER_COLLEN[col]
           d     == FieldOf(line, start, width)
       IN  IF d.ok
           THEN /\ row' = Append(row, Strip(d.chars))
                /\ start' = NextStart(start, width)
                /\ col' = col + 1
                /\ pc' = pc
           ELSE /\ pc' = "UnicodeDecodeError"
                /\ UNCHANGED <<row, start, col>>
    /\ UNCHANGED <<fn, ret, file, lineno, line, row_list, NotSm>>

\* row_list.append(row)
SmEndRow ==
    /\ fn = "read_smaster" /\ pc = "for_width" /\ col > NumFields
    /\ row_list' = Append(row_list, row)
    /\ pc' = "for_line"
    /\ UNCHANGED <<fn, ret, file, lineno, line, start, col, row, NotSm>>

\* pd.DataFrame(data, columns): the rows of a list of lists, when the widest
\* row has as many cells as there are columns (shorter rows are filled with
\* None); an empty list gives the empty table
DataFrame(recs, ncols) ==
    LET width == IF recs = <<>> THEN ncols
                 ELSE CHOOSE w \in {Len(recs[i]) : i \in 1..Len(recs)} :
                        \A i \in 1..Len(recs) : Len(recs[i]) <= w
    IN  IF width # ncols THEN [ok |-> FALSE, rows |-> <<>>]
        ELSE [ok |-> TRUE,
              rows |-> [i \in 1..Len(recs) |->
                          recs[i] \o [j \in 1..(ncols - Len(recs[i])) |-> "None"]]]

\* return pd.DataFrame(row_list, columns=SMASTER_COLNAME)
SmReturn ==
    /\ fn = "read_smaster" /\ pc = "for_line" /\ lineno = Len(file)
    /\ LET df == DataFrame(row_list, NumFields)
       IN  IF df.ok THEN pc' = "done" /\ ret' = df.rows
           ELSE pc' = "ValueError" /\ ret' = ret
    /\ UNCHANGED <<fn, smVars, NotSm>>

(***************************************************************************)
(* Properties of read_smaster                                              *)
(***************************************************************************)
Max(a, b) == IF a >= b THEN a ELSE b

\* byte offset of field k in the external format
Offset(k) == SumTo(SMASTER_COLLEN, k - 1)

\* the bytes of ln that lie in [off, off + w), those that exist
BytesAt(ln, off, w) == [j \in 1..Max(0, Min(w, Len(ln) - off)) |-> ln[off + j]]

RECURSIVE Flatten(_)
Flatten(fields) ==
    IF fields = <<>> THEN <<>> ELSE Head(fields) \o Flatten(Tail(fields))

RemoveWS(cs) == SelectSeq(cs, LAMBDA c : ~IsSpace(c))

\* every field slice of the line is a well-formed Shift_JIS byte sequence
WellFormed(ln) ==
    \A k \in 1..NumFields : Decode(BytesAt(ln, Offset(k), SMASTER_COLLEN[k])).ok

ExpectedField(ln, k) ==
    Strip(Decode(BytesAt(ln, Offset(k), SMASTER_COLLEN[k])).chars)

IsShort(ln) == Len(ln) < RecLen

\* C8 as stated: no short line, wherever it ends, makes read_smaster raise.
C8_ShortLineNeverRaises ==
    (fn = "read_smaster" /\ pc = "UnicodeDecodeError") => ~IsShort(line)

\* C8 amended: a short line whose field slices are all well-formed Shift_JIS
\* (it does not end inside a double-byte character) raises no error and
\* gives a 36-field record: a field that starts past the end of the line is
\* empty, a field cut by the end of the line holds the decoded bytes present.
C8_ShortWellFormedLine ==
    fn = "read_smaster" =>
        /\ (lineno >= 1 /\ IsShort(line) /\ WellFormed(line))
              => pc \in {"for_line", "for_width", "done"}
        /\ \A i \in 1..Len(row_list) :
              (IsShort(file[i]) /\ WellFormed(file[i])) =>
                  /\ Len(row_list[i]) = 36
                  /\ \A k \in 1..36 :
                        /\ Offset(k) >= Len(file[i]) => row_list[i][k] = <<>>
                        /\ row_list[i][k] = ExpectedField(file[i], k)

\* a short line that ends inside field 15 has been read: the field holds
\* what is left of it and the fields after it are empty
C8_Witness ==
    /\ fn = "read_smaster" /\ pc = "done" /\ Len(file) = 1
    /\ Len(file[1]) = Offset(15) + 4
    /\ ret[1][15] # <<>> /\ ret[1][14] # <<>>
    /\ \A k \in 16..36 : ret[1][k] = <<>>

(***************************************************************************)
(* read_weather.py: get_stations                                           *)
(***************************************************************************)
STID == <<"s", "t", "i", "d">>

PRID == <<"p", "r", "i", "d">>

KANSOKU == <<"k", "a", "n", "s", "o", "k", "u">>

FlagNames ==
    << <<"r", "a", "i", "n">>, <<"w", "i", "n", "d">>, <<"t", "e", "m", "p">>,
       <<"s", "u", "n">>, <<"s", "n", "o", "w">>, <<"e", "t", "c">> >>

\* ---- the pages the portal may answer with ----
MaxBits == 6       \* longest capability bit-string of 0s and 1s
MaxStations == 2   \* station containers in a page of several stations

\* an attribute or element the markup does not have
Absent == <<"absent">>

BitStrings == UNION {SeqsOf({"0", "1"}, n) : n \in 0..MaxBits}

KansokuValues ==
    BitStrings \cup {<<"1", "1", "1", "2", "1", "1">>,
                     <<"1", "0", "1", "2", "0">>,
                     <<"1", "1", "1", "1", "1", "1", "0">>,
                     PyNone, Absent}

Titles ==
    {<<"n", ":", "T", "\n", "h", FullWidthColon, "5">>,
     <<"j", "u", "n", "k", "\n", "n", ":", "T", ":", "x">>,
     <<>>,
     Absent}

\* a station container: its hidden inputs in order, and its title attribute
MkDiv(stid, kansoku, title) ==
    [inputs |->
        (IF stid = Absent THEN <<>> ELSE <<[name |-> STID, value |-> stid]>>)
        \o <<[name |-> PRID, value |-> <<"1", "1">>]>>
        \o (IF kansoku = Absent THEN <<>>
            ELSE <<[name |-> KANSOKU, value |-> kansoku]>>),
     title |-> title]

AllDivs ==
    {MkDiv(<<"a">>, k, t) : k \in KansokuValues, t \in Titles}
    \cup {MkDiv(sid, <<"1", "0", "0", "0", "0", "0">>, <<>>) :
            sid \in {Absent, PyNone}}

FewDivs ==
    {MkDiv(sid, k, <<"n", ":", "T", "\n", "h", FullWidthColon, "5">>) :
        sid \in {<<"a">>, <<"b">>},
        k \in {<<"1", "1", "1", "1", "1", "1">>, <<"1", "0", "0", "0", "0", "0">>,
               <<"1", "0", "1">>, <<"0", "1", "0", "1", "0">>, Absent}}

Pages ==
    {<<>>} \cup {<<d>> : d \in AllDivs}
           \cup UNION {SeqsOf(FewDivs, n) : n \in 2..MaxStations}

StationsIdle == soup = <<>> /\ stations = <<>> /\ parsed = <<>> /\ st_i = 0

\* parent.find("input", {"name": name}): the first such input; found is
\* FALSE when find returns None
FindInput(div, name) ==
    IF \E i \in 1..Len(div.inputs) : div.inputs[i].name = name
    THEN LET i == CHOOSE i \in 1..Len(div.inputs) :
                    /\ div.inputs[i].name = name
                    /\ \A j \in 1..(i - 1) : div.inputs[j].name # name
         IN  [found |-> TRUE, value |-> div.inputs[i].value]
    ELSE [found |-> FALSE, value |-> PyNone]

\* stations = {div.find("input", {"name": "stid"})["value"]: div for div in ...}
RECURSIVE BuildStations(_, _, _)
BuildStations(divs, i, acc) ==
    IF i > Len(divs) THEN [err |-> "", dict |-> acc]
    ELSE LET inp == FindInput(divs[i], STID)
         IN  IF ~inp.found THEN [err |-> "TypeError", dict |-> acc]
             ELSE IF inp.value = PyNone
             THEN [err |-> "KeyError: 'value'", dict |-> acc]
             ELSE BuildStations(divs, i + 1, OPut(acc, inp.value, divs[i]))

StStations ==
    /\ fn = "get_stations" /\ pc = "stations"
    /\ LET r == BuildStations(soup, 1, <<>>)
       IN  IF r.err = "" THEN stations' = r.dict /\ pc' = "parsed"
           ELSE stations' = stations /\ pc' = r.err
    /\ UNCHANGED <<fn, ret, soup, parsed, st_i, NotSt>>

\* {elm.get("name"): elm.get("value") for elm in hiddens}
RECURSIVE parse_hidden(_, _)
parse_hidden(inputs, i) ==
    IF i = 0 THEN <<>>
    ELSE Put(parse_hidden(inputs, i - 1), inputs[i].name, inputs[i].value)

RECURSIVE ParseLines(_, _)
ParseLines(ls, i) ==
    IF i = 0 THEN <<>>
    ELSE LET acc  == ParseLines(ls, i - 1)
             pair == Split(Replace(ls[i], FullWidthColon, ":"), ":")
         IN  IF Len(pair) < 2 THEN acc ELSE Put(acc, pair[1], pair[2])

parse_text(text) ==
    LET ls == Split(text, "\n") IN ParseLines(ls, Len(ls))

\* parsed = {id: {**parse_hidden(station), **parse_text(station["title"])} ...}
RECURSIVE BuildParsed(_, _)
BuildParsed(sts, i) ==
    IF i > Len(sts) THEN [err |-> "", dict |-> <<>>]
    ELSE LET div == sts[i].value
         IN  IF div.title = Absent THEN [err |-> "KeyError: 'title'", dict |-> <<>>]
             ELSE LET rest == BuildParsed(sts, i + 1)
                      rec  == Merge(parse_hidden(div.inputs, Len(div.inputs)),
                                    parse_text(div.title))
                  IN  [err |-> rest.err,
                       dict |-> <<[key |-> sts[i].key, value |-> rec]>> \o rest.dict]

StParsed ==
    /\ fn = "get_stations" /\ pc = "parsed"
    /\ LET r == BuildParsed(stations, 1)
       IN  IF r.err = "" THEN parsed' = r.dict /\ pc' = "update"
           ELSE parsed' = parsed /\ pc' = r.err
    /\ UNCHANGED <<fn, ret, soup, stations, st_i, NotSt>>

\* the guard of kansoku_items
TooShort(bits) == Len(bits) < 5

\* the bit that decides the flag "etc"
EtcIndex == 5

\* bits[i] of a str, i counted from 0: IndexError past the end
CharAt(bits, i) == IF i < Len(bits) THEN bits[i + 1] ELSE "IndexError"

kansoku_items(bits) ==
    IF bits = PyNone \/ TooShort(bits) THEN [err |-> "", items |-> <<>>]
    ELSE LET idx == [k \in 1..6 |-> IF k = 6 THEN EtcIndex ELSE k - 1]
         IN  IF \E k \in 1..6 : CharAt(bits, idx[k]) = "IndexError"
             THEN [err |-> "IndexError", items |-> <<>>]
             ELSE [err |-> "",
                   items |-> [f \in {FlagNames[k] : k \in 1..6} |->
                                LET k == CHOOSE k \in 1..6 : FlagNames[k] = f
                                IN  PyBool(CharAt(bits, idx[k]) # "0")]]

\* one iteration of: for station in parsed.values():
\*     station.update(kansoku_items(station["kansoku"]))
StUpdate ==
    /\ fn = "get_stations" /\ pc = "update" /\ st_i < Len(parsed)
    /\ LET station == parsed[st_i + 1].value
       IN  IF KANSOKU \notin DOMAIN station
           THEN pc' = "KeyError: 'kansoku'" /\ UNCHANGED <<parsed, st_i>>
           ELSE LET r == kansoku_items(station[KANSOKU])
                IN  IF r.err # ""
                    THEN pc' = r.err /\ UNCHANGED <<parsed, st_i>>
                    ELSE /\ parsed' = [parsed EXCEPT ![st_i + 1].value =
                                          Merge(station, r.items)]
                         /\ st_i' = st_i + 1
                         /\ pc' = pc
    /\ UNCHANGED <<fn, ret, soup, stations, NotSt>>

\* return parsed
StReturn ==
    /\ fn = "get_stations" /\ pc = "update" /\ st_i = Len(parsed)
    /\ ret' = parsed
    /\ pc' = "done"
    /\ UNCHANGED <<fn, stVars, NotSt>>

(***************************************************************************)
(* Properties of get_stations                                              *)
(***************************************************************************)
\* the record the update loop is at when it raises
CurrentStation == parsed[st_i + 1].value

HasBits(rec, n) ==
    /\ KANSOKU \in DOMAIN rec
    /\ rec[KANSOKU] # PyNone
    /\ Len(rec[KANSOKU]) >= n

\* the record has the six flags, flag k being "character k of the bit-string
\* is not 0"
FlagsMatchBits(rec) ==
    \A k \in 1..6 :
        /\ FlagNames[k] \in DOMAIN rec
        /\ rec[FlagNames[k]] = PyBool(CharAt(rec[KANSOKU], k - 1) # "0")

\* C1: for a station whose bit-string has 5 characters or more (5 included)
\* kansoku_items returns without error, and the station gets exactly the six
\* flags rain, wind, temp, sun, snow, etc, flag i being true iff character i
\* of the bit-string is not "0".
C1_FlagsForFiveOrMore ==
    fn = "get_stations" =>
        /\ pc = "IndexError" => ~HasBits(CurrentStation, 5)
        /\ \A i \in 1..st_i :
              HasBits(parsed[i].value, 5) => FlagsMatchBits(parsed[i].value)

AbsentOrShort(rec) ==
    \/ KANSOKU \notin DOMAIN rec
    \/ rec[KANSOKU] = PyNone
    \/ Len(rec[KANSOKU]) < 5

NoFlags(rec) == \A k \in 1..6 : FlagNames[k] \notin DOMAIN rec

\* the fields of a container: hidden inputs, overridden by the title's pairs
MergedFields(div) ==
    Merge(parse_hidden(div.inputs, Len(div.inputs)), parse_text(div.title))

\* C2: a station whose bit-string is absent (no hidden input "kansoku", or
\* one without a value) or shorter than 5 characters raises no error, gets no
\* capability flag, and its record of merged hidden-input and title fields
\* is returned.
C2_NoFlagsWhenAbsentOrShort ==
    fn = "get_stations" =>
        /\ pc \in {"KeyError: 'kansoku'", "IndexError"}
              => ~AbsentOrShort(CurrentStation)
        /\ \A i \in 1..st_i :
              AbsentOrShort(parsed[i].value) =>
                  /\ NoFlags(parsed[i].value)
                  /\ parsed[i].value = MergedFields(stations[i].value)
        /\ pc = "done" => ret = parsed

(***************************************************************************)
(* read_weather.py: parse_number                                           *)
(***************************************************************************)
MaxNumLen == 4     \* longest numeric string drawn from NumAlphabet

NumAlphabet == {"3", "0", ".", "e", "-", " ", "_"}

NumStrings ==
    UNION {SeqsOf(NumAlphabet, n) : n \in 0..MaxNumLen}
    \cup {<<"n", "a", "n">>, <<"i", "n", "f">>, <<"-", "I", "n", "f">>,
          <<"i", "n", "f", "i", "n", "i", "t", "y">>, <<"N", "a", "N">>,
          <<"n", "a", "n", "3">>, <<"i", "n", "f", "i", "n">>,
          <<"1", "e", "+", "3">>, <<"1", "_", "0", ".", "5">>,
          <<"+", ".", "5", "E", "-", "1">>, <<" ", "+", "1", "_", "0", "\n">>,
          <<"1", "_", "0", "e", "1", "_", "0">>, <<"1", "e", "3", "_">>,
          <<"0", "x", "1", "0">>, <<"2", "0", "1">>, <<"-", " ", "1">>,
          <<"1", ".", "5", "e", "3">>, <<"1", ".", "_", "5">>}

NumberIdle == num_str = <<>>

\* try: return int(num_str)
PnInt ==
    /\ fn = "parse_number" /\ pc = "try"
    /\ LET r == PyInt(num_str)
       IN  IF r.ok THEN pc' = "done" /\ ret' = [kind |-> r.kind, value |-> r.value]
           ELSE pc' = "except" /\ ret' = ret
    /\ UNCHANGED <<fn, pnVars, NotPn>>

\* except ValueError: return float(num_str)
PnFloat ==
    /\ fn = "parse_number" /\ pc = "except"
    /\ LET r == PyFloat(num_str)
       IN  IF r.ok THEN pc' = "done" /\ ret' = [kind |-> r.kind, value |-> r.value]
           ELSE pc' = "ValueError" /\ ret' = ret
    /\ UNCHANGED <<fn, pnVars, NotPn>>

\* try: return a  except ValueError: return b
OrElse(a, b) == IF a.ok THEN a ELSE b

\* the whole call, for the callers of parse_number
parse_number(cs) == OrElse(PyInt(cs), PyFloat(cs))

(***************************************************************************)
(* Properties of parse_number                                              *)
(***************************************************************************)
\* digits with single underscores between them
IsDigitPart(cs) ==
    /\ cs # <<>> /\ IsDigit(cs[1]) /\ IsDigit(cs[Len(cs)])
    /\ \A i \in 1..Len(cs) : IsDigit(cs[i]) \/ cs[i] = "_"
    /\ \A i \in 1..(Len(cs) - 1) : ~(cs[i] = "_" /\ cs[i + 1] = "_")

\* the text without the whitespace around it and without its sign
Body(cs) ==
    LET inner == {i \in 1..Len(cs) : ~IsWs(cs[i])}
        lo == CHOOSE i \in inner : \A j \in inner : i <= j
        hi == CHOOSE i \in inner : \A j \in inner : j <= i
    IN  IF inner = {} THEN <<>>
        ELSE IF IsSign(cs[lo]) THEN SubSeq(cs, lo + 1, hi)
        ELSE SubSeq(cs, lo, hi)

\* an integer literal: [sign] digit (["_"] digit)*
IsIntLiteral(cs) == IsDigitPart(Body(cs))

IsMantissa(m) ==
    \/ IsDigitPart(m)
    \/ \E p \in 1..Len(m) :
          /\ m[p] = "."
          /\ LET ip == SubSeq(m, 1, p - 1)
                 fp == SubSeq(m, p + 1, Len(m))
             IN  /\ ip = <<>> \/ IsDigitPart(ip)
                 /\ fp = <<>> \/ IsDigitPart(fp)
                 /\ ip # <<>> \/ fp # <<>>

IsExponent(x) ==
    /\ Len(x) >= 2 /\ x[1] \in {"e", "E"}
    /\ IsDigitPart(IF IsSign(x[2]) THEN SubSeq(x, 3, Len(x)) ELSE Tail(x))

\* a floating literal: inf, infinity, nan, or mantissa [exponent]
IsFloatLiteral(cs) ==
    LET b == Body(cs)
    IN  \/ [i \in 1..Len(b) |-> Lower(b[i])] \in
              {<<"i", "n", "f">>, <<"n", "a", "n">>,
               <<"i", "n", "f", "i", "n", "i", "t", "y">>}
        \/ \E k \in 1..Len(b) :
              /\ IsMantissa(SubSeq(b, 1, k))
              /\ k = Len(b) \/ IsExponent(SubSeq(b, k + 1, Len(b)))

HasPointOrExponent(cs) == \E i \in 1..Len(cs) : cs[i] \in {".", "e", "E"}

MaxElements == 2   \* element ids in one request

ElementIds == {201, 5, 1003}

StationCodes == {<<"c", "4", "7", "6", "6", "2">>, <<"s", "1">>}

\* (year, month, day) of the dates requested
Dates == {<<2023, 1, 1>>, <<2023, 6, 30>>, <<2024, 12, 5>>}

Calls ==
    [phpsessid : {<<"i", "d">>}, aggrg_period : {2},
     station : StationCodes,
     elements : UNION {SeqsOf(ElementIds, n) : n \in 0..MaxElements},
     begin_date : Dates, end_date : Dates]

NoCall ==
    [phpsessid |-> <<>>, aggrg_period |-> 0, station |-> <<>>,
     elements |-> <<>>, begin_date |-> <<0, 0, 0>>, end_date |-> <<0, 0, 0>>]

NoParams == [PHPSESSID |-> <<>>]

DownloadIdle == args = NoCall /\ params = NoParams

Quoted(cs) == <<"\"">> \o cs \o <<"\"">>

\* f'["{elm}",""]'
ElementPair(elm) == <<"[">> \o Quoted(ToStr(elm)) \o <<",">> \o Quoted(<<>>) \o <<"]">>

\* the separator between the pairs
PairSep == <<",">>

\* "[" + ",".join([f'["{elm}",""]' for elm in elements]) + "]"
ElementStr(elements) ==
    <<"[">> \o Join(PairSep, [i \in 1..Len(elements) |-> ElementPair(elements[i])])
            \o <<"]">>

\* f'["{station}"]'
StationStr(station) == <<"[">> \o Quoted(station) \o <<"]">>

\* the six numbers of ymdList, in their order
YmdOrder_BeginFirst(b, e) == <<b[1], b[2], b[3], e[1], e[2], e[3]>>

YmdOrder(b, e) == <<b[1], e[1], b[2], e[2], b[3], e[3]>>

\* f'["{b.year}", "{e.year}",' f' "{b.month}", "{e.month}",' f' "{b.day}", "{e.day}"]'
YmdStr(b, e) ==
    LET n == YmdOrder(b, e)
    IN  <<"[">> \o Quoted(ToStr(n[1])) \o <<",", " ">> \o Quoted(ToStr(n[2]))
        \o <<",">> \o <<" ">> \o Quoted(ToStr(n[3])) \o <<",", " ">>
        \o Quoted(ToStr(n[4])) \o <<",">> \o <<" ">> \o Quoted(ToStr(n[5]))
        \o <<",", " ">> \o Quoted(ToStr(n[6])) \o <<"]">>

\* params = {...}
DlParams ==
    /\ fn = "get_weather_as_csv" /\ pc = "params"
    /\ params' =
          [PHPSESSID |-> args.phpsessid,
           rmkFlag |-> 1, disconnectFlag |-> 1, csvFlag |-> 1, ymdLiteral |-> 1,
           youbiFlag |-> 0, kijiFlag |-> 0,
           aggrgPeriod |-> args.aggrg_period,
           stationNumList |-> StationStr(args.station),
           elementNumList |-> ElementStr(args.elements),
           ymdList |-> YmdStr(args.begin_date, args.end_date),
           jikantaiFlag |-> 0,
           jikantaiList |-> <<"[", "1", ",", "2", "4", "]">>,
           interAnnualFlag |-> 1,
           optionNumList |-> <<>>, downloadFlag |-> PyBool(TRUE), huukouFlag |-> 0]
    /\ pc' = "post"
    /\ UNCHANGED <<fn, ret, args, rcVars, NotDl>>

(***************************************************************************)
(* Properties of get_weather_as_csv                                        *)
(***************************************************************************)
\* the texts between successive pairs of double quotes
RECURSIVE QuotedParts(_)
QuotedParts(cs) ==
    LET q == {i \in 1..Len(cs) : cs[i] = "\""}
    IN  IF Cardinality(q) < 2 THEN <<>>
        ELSE LET a == CHOOSE i \in q : \A j \in q : i <= j
                 b == CHOOSE i \in q \ {a} : \A j \in q \ {a} : i <= j
             IN  <<SubSeq(cs, a + 1, b - 1)>> \o QuotedParts(SubSeq(cs, b + 1, Len(cs)))

\* the text with what stands between double quotes taken out
RECURSIVE Skeleton(_)
Skeleton(cs) ==
    LET q == {i \in 1..Len(cs) : cs[i] = "\""}
    IN  IF Cardinality(q) < 2 THEN cs
        ELSE LET a == CHOOSE i \in q : \A j \in q : i <= j
                 b == CHOOSE i \in q \ {a} : \A j \in q \ {a} : i <= j
             IN  SubSeq(cs, 1, a) \o <<"\"">> \o Skeleton(SubSeq(cs, b + 1, Len(cs)))

\* the decimal number a text of digits spells
Spells(cs, n) ==
    /\ cs # <<>> /\ \A i \in 1..Len(cs) : IsDigit(cs[i])
    /\ cs[1] = "0" => Len(cs) = 1
    /\ ScanDigits(cs, 1, 0, 0).value = n

EmptyPair == <<"[", "\"", "\"", ",", "\"", "\"", "]">>

\* C4: elementNumList is "[", one pair ["<id>",""] per requested element in
\* the order of the input list, separated by commas, and "]"; stationNumList
\* is ["<station>"]; ymdList is the array of the six texts begin year, end
\* year, begin month, end month, begin day, end day.
C4_PayloadLists ==
    (fn = "get_weather_as_csv" /\ pc # "params") =>
        LET n  == Len(args.elements)
            el == params.elementNumList
            ym == params.ymdList
            b  == args.begin_date
            e  == args.end_date
        IN  /\ Skeleton(el) = <<"[">> \o Join(<<",">>, [i \in 1..n |-> EmptyPair])
                                      \o <<"]">>
            /\ Len(QuotedParts(el)) = 2 * n
            /\ \A i \in 1..n :
                  /\ Spells(QuotedParts(el)[2 * i - 1], args.elements[i])
                  /\ QuotedParts(el)[2 * i] = <<>>
            /\ args.elements = <<201>> =>
                  el = <<"[", "[", "\"", "2", "0", "1", "\"", ",", "\"", "\"",
                         "]", "]">>
            /\ params.stationNumList = <<"[", "\"">> \o args.station \o <<"\"", "]">>
            /\ Skeleton(ym) = <<"[", "\"", "\"", ",", " ", "\"", "\"", ",", " ",
                                "\"", "\"", ",", " ", "\"", "\"", ",", " ",
                                "\"", "\"", ",", " ", "\"", "\"", "]">>
            /\ Len(QuotedParts(ym)) = 6
            /\ Spells(QuotedParts(ym)[1], b[1]) /\ Spells(QuotedParts(ym)[2], e[1])
            /\ Spells(QuotedParts(ym)[3], b[2]) /\ Spells(QuotedParts(ym)[4], e[2])
            /\ Spells(QuotedParts(ym)[5], b[3]) /\ Spells(QuotedParts(ym)[6], e[3])

\* a payload for two different elements and a range over two years
C4_Witness ==
    /\ fn = "get_weather_as_csv" /\ pc = "post"
    /\ args.elements = <<201, 5>>
    /\ args.begin_date = <<2023, 6, 30>> /\ args.end_date = <<2024, 12, 5>>

(***************************************************************************)
(* read_weather.py: read_csv                                               *)
(***************************************************************************)
MaxCols == 2       \* value columns of a downloaded table
MaxData == 2       \* data records of a downloaded table

UNNAMED == <<"U", "n", "n", "a", "m", "e", "d">>

\* the four header cells of one column, top level first
DateColumn == << <<>>, <<"d">>, <<>>, <<>> >>

\* a value, its quality flag, a value with a third-level label, a label
\* that itself contains the word Unnamed
ValueColumns ==
    { << <<"s">>, <<"t">>, <<>>, <<>> >>,
      << <<"s">>, <<"t">>, <<>>, <<"q">> >>,
      << <<"s">>, <<"w">>, <<"r">>, <<"q">> >>,
      << <<"s">>, UNNAMED \o <<" ", "x">>, <<>>, <<"q">> >> }

\* a download has the date column and then the value columns
Headers == {<<DateColumn>> \o h : h \in UNION {SeqsOf(ValueColumns, n) : n \in 1..MaxCols}}

\* the lines of a download: two title lines, the first nh header lines of
\* the header hd, and nd data records
CsvLines(hd, nh, nd) ==
    << <<"T">>, <<>> >>
    \o [l \in 1..nh |-> Join(<<",">>, [c \in 1..Len(hd) |-> hd[c][l]])]
    \o [i \in 1..nd |-> Join(<<",">>, [c \in 1..Len(hd) |-> <<DigitChar(i + c)>>])]

\* the text of a download: every line followed by eol, the last one only
\* when closed
CsvText(hd, nh, nd, eol, closed) ==
    Join(eol, CsvLines(hd, nh, nd)) \o (IF closed THEN eol ELSE <<>>)

Eols == {<<"\n">>, <<"\r", "\n">>}

CsvTexts ==
    {CsvText(hd, 4, nd, eol, closed) :
        hd \in Headers, nd \in 0..MaxData, eol \in Eols, closed \in BOOLEAN}
    \cup {CsvText(hd, nh, 0, eol, closed) :
        hd \in Headers, nh \in 0..3, eol \in Eols, closed \in BOOLEAN}
    \cup {<<>>}

FewCsvTexts ==
    {CsvText(hd, nh, 1, eol, TRUE) :
        hd \in {<<DateColumn, v>> : v \in ValueColumns}, nh \in {2, 4}, eol \in Eols}

NoFrame == [columns |-> <<>>, rows |-> <<>>]

ReadCsvIdle ==
    /\ csv_text = <<>> /\ lines = <<>> /\ buf = <<>> /\ hdr4 = <<>>
    /\ df_cols = <<>> /\ df_rows = <<>>

\* the records the parser's tokenizer makes of a text: "\n", "\r\n" and a
\* lone "\r" each end a record, and empty records are skipped
RECURSIVE TokRows(_)
TokRows(cs) ==
    LET t == {i \in 1..Len(cs) : cs[i] \in {"\n", "\r"}}
    IN  IF t = {} THEN (IF cs = <<>> THEN <<>> ELSE <<cs>>)
        ELSE LET i    == CHOOSE i \in t : \A j \in t : i <= j
                 upto == IF cs[i] = "\r" /\ i < Len(cs) /\ cs[i + 1] = "\n"
                         THEN i + 1 ELSE i
                 rest == TokRows(SubSeq(cs, upto + 1, Len(cs)))
             IN  IF i = 1 THEN rest ELSE <<SubSeq(cs, 1, i - 1)>> \o rest

\* the label pd.read_csv gives an empty header cell of column i, level l
UnnamedLabel(i, l) ==
    UNNAMED \o <<":", " ">> \o ToStr(i) \o <<"_", "l", "e", "v", "e", "l", "_">>
            \o ToStr(l)

\* a repeated column tuple gets ".k" on its last level
Mangle(cols) ==
    [c \in 1..Len(cols) |->
        LET k == Cardinality({j \in 1..(c - 1) : cols[j] = cols[c]})
            n == Len(cols[c])
        IN  IF k = 0 THEN cols[c]
            ELSE [cols[c] EXCEPT ![n] = cols[c][n] \o <<".">> \o ToStr(k)]]

\* pd.read_csv(StringIO(text), header=[0, 1, 2, 3]) of a text whose records
\* all have as many cells as the first.  strict: the pandas in use rejects a
\* header with a level that is empty in every column.
ReadCsv(text, strict) ==
    LET recs  == TokRows(text)
        cells == [i \in 1..Len(recs) |-> Split(recs[i], ",")]
        ncols == Len(cells[1])
        fail(e) == [err |-> e, columns |-> <<>>, rows |-> <<>>]
    IN  IF recs = <<>> THEN fail("EmptyDataError")
        ELSE IF Len(recs) < 4 THEN fail("ParserError")
        ELSE IF strict /\ \E l \in 1..4 : \A c \in 1..ncols : cells[l][c] = <<>>
        THEN fail("ParserError")
        ELSE [err |-> "",
              columns |-> Mangle([c \in 1..ncols |->
                              [l \in 1..4 |->
                                  IF cells[l][c] = <<>> THEN UnnamedLabel(c - 1, l - 1)
                                  ELSE cells[l][c]]]),
              rows |-> SubSeq(cells, 5, Len(cells))]

\* response = requests.post(CSVDL_URL, data=params);
\* response.encoding = "shift_jis"; read_csv(response.text)
DlPost ==
    /\ fn = "get_weather_as_csv" /\ pc = "post"
    /\ csv_text' \in FewCsvTexts
    /\ pc' = "split"
    /\ UNCHANGED <<fn, ret, dlVars, lines, buf, hdr4, df_cols, df_rows, NotDl>>

\* lines = csv_text.split("\n")
RcSplit ==
    /\ pc = "split"
    /\ lines' = Split(csv_text, "\n")
    /\ pc' = "read_csv"
    /\ UNCHANGED <<fn, ret, dlVars, csv_text, buf, hdr4, df_cols, df_rows, NotRc>>

\* what joins the lines again
LineSep == <<>>

\* "".join(lines[2:])
JoinLines(ls) == Join(LineSep, PySlice(ls, 2, Len(ls)))

\* df_ = pd.read_csv(StringIO("".join(lines[2:])), header=[0, 1, 2, 3])
RcRead ==
    /\ pc = "read_csv"
    /\ buf' = JoinLines(lines)
    /\ \E strict \in BOOLEAN :
          LET r == ReadCsv(buf', strict)
          IN  IF r.err # ""
              THEN pc' = r.err /\ UNCHANGED <<hdr4, df_cols, df_rows>>
              ELSE /\ hdr4' = r.columns /\ df_cols' = r.columns
                   /\ df_rows' = r.rows
                   /\ pc' = "droplevel"
    /\ UNCHANGED <<fn, ret, dlVars, csv_text, lines, NotRc>>

\* df_.columns = df_.columns.droplevel([2])
DropLevel(cols) == [c \in 1..Len(cols) |-> <<cols[c][1], cols[c][2], cols[c][4]>>]

RcDropLevel ==
    /\ pc = "droplevel"
    /\ df_cols' = DropLevel(df_cols)
    /\ pc' = "from_tuples"
    /\ UNCHANGED <<fn, ret, dlVars, csv_text, lines, buf, hdr4, df_rows, NotRc>>

\* 'Unnamed' in x
Contains(x, word) ==
    \E i \in 0..(Len(x) - Len(word)) : SubSeq(x, i + 1, i + Len(word)) = word

\* [(x if 'Unnamed' not in x else '') for x in col]
BlankUnnamed(tup) ==
    [l \in 1..Len(tup) |-> IF ~Contains(tup[l], UNNAMED) THEN tup[l] ELSE <<>>]

\* df_.columns = pd.MultiIndex.from_tuples(... for col in df_.columns); return df_
RcFromTuples ==
    /\ pc = "from_tuples"
    /\ df_cols' = [c \in 1..Len(df_cols) |-> BlankUnnamed(df_cols[c])]
    /\ ret' = [columns |-> df_cols', rows |-> df_rows]
    /\ pc' = "done"
    /\ UNCHANGED <<fn, dlVars, csv_text, lines, buf, hdr4, df_rows, NotRc>>

(***************************************************************************)
(* Properties of read_csv                                                  *)
(***************************************************************************)
\* the lines of a text as a reader of the file sees them: what "\n"
\* separates, without the "\r" of a "\r\n" and without the empty piece after
\* a closing "\n"
TextLines(text) ==
    LET ps == Split(text, "\n")
        ls == IF ps[Len(ps)] = <<>> THEN SubSeq(ps, 1, Len(ps) - 1) ELSE ps
    IN  [i \in 1..Len(ls) |->
            IF ls[i] # <<>> /\ ls[i][Len(ls[i])] = "\r"
            THEN SubSeq(ls[i], 1, Len(ls[i]) - 1) ELSE ls[i]]

InReadCsv == fn \in {"read_csv", "get_weather_as_csv"}

AfterRead == pc \in {"droplevel", "from_tuples", "done", "ParserError", "EmptyDataError"}

\* the header cell of column c at level l, as the text handed to the parser
\* has it
RawHeaderCell(c, l) == Split(TokRows(buf)[l], ",")[c]

\* C5: collapsing the 4-level header removes the third level and, in the
\* three levels left, blanks exactly the cells that are auto-generated
\* "Unnamed: k" labels (the cells the file left empty); every other cell is
\* unchanged, and the columns keep their number and order.
C5_BlanksExactlyAutoLabels ==
    (InReadCsv /\ pc = "done") =>
        /\ Len(ret.columns) = Len(hdr4)
        /\ \A c \in 1..Len(hdr4) :
              /\ Len(ret.columns[c]) = 3
              /\ \A l \in {1, 2, 4} :
                    ret.columns[c][IF l = 4 THEN 3 ELSE l]
                        = IF RawHeaderCell(c, l) = <<>> THEN <<>> ELSE hdr4[c][l]

\* C6: read_csv discards exactly the first two lines of the text, hands the
\* other lines to the parser with their boundaries kept, the next four
\* being the header rows and each later line one data record in order; with
\* fewer than six lines it fails instead of returning a table.
C6_LinesKeptApart ==
    (InReadCsv /\ AfterRead) =>
        LET ls   == TextLines(csv_text)
            rest == SelectSeq(SubSeq(ls, 3, Len(ls)), LAMBDA l : l # <<>>)
        IN  /\ TokRows(buf) = rest
            /\ Len(ls) < 6 => pc # "done"
            /\ pc = "done" =>
                  /\ \A l \in 1..4 : \A c \in 1..Len(hdr4) :
                        RawHeaderCell(c, l) = Split(ls[2 + l], ",")[c]
                  /\ df_rows = [i \in 1..(Len(ls) - 6) |-> Split(ls[6 + i], ",")]

(***************************************************************************)
(* read_weather.py: get_weather_from_html                                  *)
(***************************************************************************)
WEATHER_COLNAME ==
    <<"day", "pressure_station", "pressure_sea", "rain_total", "rain_max_1h",
      "rain_max_10min", "temp_mean", "temp_max", "temp_min", "humidity_mean",
      "humidity_min", "wind_mean", "wind_max", "wind_max_dir", "gust_max",
      "gust_max_dir", "sunshine", "snowfall", "snow_depth", "weather_day",
      "weather_night">>

MaxRows == 2       \* tr elements in the table

\* where the blank cells of a row are
BlankSets == {{}, {3}, {21}, {2, 3}, {1, 22}}

\* a tr of n cells: cell j is blank if j is in e, and else the number
\* 100 * tag + j with whitespace around it
MkTr(match, n, e, tag) ==
    [match |-> match,
     tds |-> [j \in 1..n |->
                IF j \in e THEN (IF j % 2 = 1 THEN <<" ">> ELSE <<>>)
                ELSE <<" ">> \o ToStr(100 * tag + j) \o <<"\n">>]]

TrsOf(tag) ==
    {MkTr(m, n, e, tag) : m \in BOOLEAN, n \in 20..22, e \in BlankSets}

\* the rows of the pages of several rows
FewTrs(tag) ==
    {MkTr(m, 21, {}, tag) : m \in BOOLEAN}
    \cup {MkTr(m, 22, e, tag) : m \in BOOLEAN, e \in {{3}, {1, 22}}}

RECURSIVE TrSeqs(_)
TrSeqs(n) ==
    IF n = 0 THEN {<<>>}
    ELSE {Append(q, tr) : q \in TrSeqs(n - 1), tr \in FewTrs(n)}

Htmls ==
    {[table |-> FALSE, trs |-> <<>>]}
    \cup {[table |-> TRUE, trs |-> q] :
            q \in {<<>>} \cup {<<tr>> : tr \in TrsOf(1)}
                         \cup UNION {TrSeqs(n) : n \in 2..MaxRows}}

HtmlIdle ==
    /\ page = [table |-> FALSE, trs |-> <<>>] /\ rows = <<>> /\ data = <<>>
    /\ ht_i = 0

\* table = soup.find("table", {"id": "tablefix1", "class": "data2_s"})
\* rows = table.find_all("tr", {"class": "mtx", "style": "text-align:right;"})
HtFindRows ==
    /\ fn = "get_weather_from_html" /\ pc = "find"
    /\ IF page.table
       THEN /\ rows' = SelectSeq(page.trs, LAMBDA tr : tr.match)
            /\ pc' = "for_row"
       ELSE /\ rows' = rows
            /\ pc' = "AttributeError"
    /\ UNCHANGED <<fn, ret, page, data, ht_i, NotHt>>

\* a row that keeps its empty cells
DropEmpty_Keep(cols) == cols

\* [ele for ele in cols if ele]
DropEmpty(cols) == SelectSeq(cols, LAMBDA ele : ele # <<>>)

\* cols = [ele.text.strip() for ele in row.find_all("td")]
\* data.append([ele for ele in cols if ele])
HtRow ==
    /\ fn = "get_weather_from_html" /\ pc = "for_row" /\ ht_i < Len(rows)
    /\ LET cells == rows[ht_i + 1].tds
           cols == [j \in 1..Len(cells) |-> TextStrip(cells[j])]
       IN  data' = Append(data, DropEmpty(cols))
    /\ ht_i' = ht_i + 1
    /\ UNCHANGED <<fn, pc, ret, page, rows, NotHt>>

\* return pd.DataFrame(data, columns=WEATHER_COLNAME)
HtReturn ==
    /\ fn = "get_weather_from_html" /\ pc = "for_row" /\ ht_i = Len(rows)
    /\ LET df == DataFrame(data, Len(WEATHER_COLNAME))
       IN  IF df.ok
           THEN pc' = "done" /\ ret' = [columns |-> WEATHER_COLNAME, rows |-> df.rows]
           ELSE pc' = "ValueError" /\ ret' = ret
    /\ UNCHANGED <<fn, htVars, NotHt>>

(***************************************************************************)
(* Properties of get_weather_from_html                                     *)
(***************************************************************************)
\* the tr elements of the page that have the signature, in document order
Matching == SelectSeq(page.trs, LAMBDA tr : tr.match)

IsBlank(text) == \A i \in 1..Len(text) : IsWs(text[i])

\* the positions of the cells of a tr that are not blank
Filled(tr) == {j \in 1..Len(tr.tds) : ~IsBlank(tr.tds[j])}

\* the position of the k-th cell of a tr that is not blank
KthFilled(tr, k) ==
    CHOOSE j \in Filled(tr) : Cardinality({i \in Filled(tr) : i <= j}) = k

\* the text of a cell without the whitespace around it
Trimmed(text) ==
    LET ink == {i \in 1..Len(text) : ~IsWs(text[i])}
    IN  SubSeq(text, CHOOSE i \in ink : \A j \in ink : i <= j,
                     CHOOSE i \in ink : \A j \in ink : j <= i)

\* C9: with the table present, the rows of the result are the N matching
\* rows in page order, 21 columns each when every row has 21 non-empty
\* cells; the blank cells of a row are dropped and the others move left; no
\* matching row gives the empty table; a page without the table raises.
C9_RowsInOrderBlanksDropped ==
    fn = "get_weather_from_html" =>
        /\ \A i \in 1..Len(data) :
              /\ Len(data[i]) = Cardinality(Filled(Matching[i]))
              /\ \A k \in 1..Len(data[i]) :
                    data[i][k] = Trimmed(Matching[i].tds[KthFilled(Matching[i], k)])
        /\ (page.table /\ \A i \in 1..Len(Matching) :
                              Cardinality(Filled(Matching[i])) = 21)
              => /\ pc \in {"find", "for_row", "done"}
                 /\ pc = "done" =>
                       /\ Len(ret.rows) = Len(Matching)
                       /\ Len(ret.columns) = 21
                       /\ \A i \in 1..Len(Matching) : ret.rows[i] = data[i]
        /\ (page.table /\ Matching = <<>> /\ pc # "find")
              => (pc \in {"for_row", "done"} /\ (pc = "done" => ret.rows = <<>>))
        /\ ~page.table => pc \in {"find", "AttributeError"}

\* two matching rows came back: one had 22 cells of which one was blank, so
\* the cells after the blank one moved left
C9_Witness ==
    /\ fn = "get_weather_from_html" /\ pc = "done"
    /\ Len(ret.rows) = 2 /\ Len(page.trs) = 2
    /\ \E i \in 1..2 :
          /\ Len(Matching[i].tds) = 22
          /\ IsBlank(Matching[i].tds[1])
          /\ ret.rows[i][1] = Trimmed(Matching[i].tds[2])

(***************************************************************************)
(* read_weather.py: get_elements                                           *)
(***************************************************************************)
MaxCells == 2      \* td elements in a page of several cells

NAME == <<"n", "a", "m", "e">>

OPTIONS == <<"o", "p", "t", "i", "o", "n", "s">>

HIDDEN == <<"h", "i", "d", "d", "e", "n">>

\* the aggregation periods asked for
Periods == {1, 2, 801}

\* the option values of the select next to a checkbox: no select (Absent),
\* a select without option, numeric options, an option that is no number
SelectChoices ==
    {Absent, <<>>, << <<"1">>, <<"2", ".", "5">> >>, << <<"5">>, <<"x">> >>}

\* the text node after the hidden input next to a checkbox: no hidden input
\* (Absent), a hidden input that is the last node of its parent (PyNone), a
\* number with whitespace around it, a text that is no number
HiddenChoices == {Absent, PyNone, <<" ", "3", "\n">>, <<"n", "/", "a">>}

\* a td: the digit of its kikan class, the element checkbox td_.find meets
\* first (NoBox if the td has none) and what the parent of the checkbox holds
\* beside it
MkCell(kikan, box, sel, hid) ==
    [kikan |-> kikan, checkbox |-> box, select |-> sel, hidden |-> hid]

Boxes ==
    [disabled : BOOLEAN, value : {<<"2", "0", "1">>, <<"3", "0", "1">>},
     id : {<<"a">>, <<"b">>}]

NoBox == [disabled |-> TRUE, value |-> Absent, id |-> Absent]

AllCells ==
    {MkCell(k, b, s, h) : k \in {"1", "8"}, b \in Boxes \cup {NoBox},
                          s \in SelectChoices, h \in HiddenChoices}

FewCells ==
    {MkCell(k, b, s, Absent) :
        k \in {"1", "8"},
        b \in {x \in Boxes : x.id = <<"a">> <=> x.value = <<"2", "0", "1">>},
        s \in {Absent, << <<"1">>, <<"2", ".", "5">> >>}}
    \cup {MkCell("1", [disabled |-> FALSE, value |-> <<"2", "0", "1">>,
                       id |-> <<"b">>], Absent, <<" ", "3", "\n">>)}

ElementPages ==
    {<<>>} \cup {<<c>> : c \in AllCells}
           \cup UNION {SeqsOf(FewCells, n) : n \in 2..MaxCells}

ElementsIdle ==
    /\ aggrg_periods = 0 /\ tds = <<>> /\ items = <<>> /\ last_item = <<>>
    /\ el_i = 0

\* the last character of str(aggrg_periods)
KikanDigit_Last(period) == ToStr(period)[Len(ToStr(period))]

\* the digit of the class looked for: str(aggrg_periods)[0]
KikanDigit(period) == ToStr(period)[1]

\* the td elements soup.find_all("td", class_="kikan" + digit) returns
Selected == SelectSeq(tds, LAMBDA td : td.kikan = KikanDigit(aggrg_periods))

\* a number as a value of the returned dict
Number(n) == [kind |-> n.kind, value |-> n.value]

\* [parse_number(x["value"]) for x in options], each with its outcome
NumberList(texts) == [i \in 1..Len(texts) |-> parse_number(texts[i])]

\* one of the conversions raised ValueError
AnyFails(nums) == \E i \in 1..Len(nums) : ~nums[i].ok

\* the list as it is stored in the entry
Numbers(nums) == [i \in 1..Len(nums) |-> Number(nums[i])]

\* elem.parent.find_all("option")
OptionsOf(td) == IF td.select = Absent THEN <<>> ELSE td.select

\* parse_number(hidden.next_sibling.text.strip())
HiddenNumber(hidden) ==
    IF hidden \in {Absent, PyNone} THEN [ok |-> FALSE, kind |-> "", value |-> 0]
    ELSE parse_number(TextStrip(hidden))

\* item as the two if statements leave it
ItemOf(item, nums, hidden, hid) ==
    Merge(item, Merge(IF nums # <<>> THEN [k \in {OPTIONS} |-> Numbers(nums)] ELSE <<>>,
                      IF hidden # Absent THEN [k \in {HIDDEN} |-> Number(hid)] ELSE <<>>))

\* the body of parse_items, given what its conversions come to
ParseItemsBody(elem, nums, hidden, hid) ==
    IF elem.disabled THEN [err |-> "", dict |-> <<>>]
    ELSE IF AnyFails(nums) THEN [err |-> "ValueError", dict |-> <<>>]
    ELSE IF hidden = PyNone THEN [err |-> "AttributeError", dict |-> <<>>]
    ELSE IF hidden # Absent /\ ~hid.ok THEN [err |-> "ValueError", dict |-> <<>>]
    ELSE [err |-> "",
          dict |-> [k \in {elem.value} |->
                       ItemOf([n \in {NAME} |-> elem.id], nums, hidden, hid)]]

\* parse_items(elem) for the checkbox of td
parse_items(td) ==
    ParseItemsBody(td.checkbox, NumberList(OptionsOf(td)), td.hidden,
                   HiddenNumber(td.hidden))

\* items.update(r), or the error r stands for
ElUpdate(r) ==
    IF r.err # ""
    THEN pc' = r.err /\ UNCHANGED <<items, last_item, el_i>>
    ELSE /\ items' = Merge(items, r.dict)
         /\ last_item' = r.dict
         /\ el_i' = el_i + 1
         /\ pc' = pc

\* one iteration of: for td_ in soup.find_all("td", class_=...):
\*     inp = td_.find("input", {"type": "checkbox", "name": "element"})
\*     items.update(parse_items(inp))
ElCell ==
    /\ fn = "get_elements" /\ pc = "for_td" /\ el_i < Len(Selected)
    /\ IF Selected[el_i + 1].checkbox = NoBox
       THEN pc' = "AttributeError" /\ UNCHANGED <<items, last_item, el_i>>
       ELSE ElUpdate(parse_items(Selected[el_i + 1]))
    /\ UNCHANGED <<fn, ret, aggrg_periods, tds, NotEl>>

\* return items
ElReturn ==
    /\ fn = "get_elements" /\ pc = "for_td" /\ el_i = Len(Selected)
    /\ ret' = items
    /\ pc' = "done"
    /\ UNCHANGED <<fn, elVars, NotEl>>

(***************************************************************************)
(* Properties of get_elements                                              *)
(***************************************************************************)
\* the leading digit of a positive number
RECURSIVE LeadingDigit(_)
LeadingDigit(n) == IF n < 10 THEN n ELSE LeadingDigit(n \div 10)

\* the cells of the period's class, in document order
PeriodCells ==
    SelectSeq(tds, LAMBDA td : td.kikan = DigitChar(LeadingDigit(aggrg_periods)))

InElements == fn = "get_elements"

\* the loop has just taken in a cell
Handled == InElements /\ el_i > 0 /\ el_i <= Len(PeriodCells)

IsNumber(v) == v.kind \in {"int", "float"}

IsNumberList(l) == \A i \in 1..Len(l) : IsNumber(l[i])

\* the cell contributed one entry, keyed by the value of its checkbox and
\* named by its id
OneEntry(td, contrib) ==
    /\ DOMAIN contrib = {td.checkbox.value}
    /\ NAME \in DOMAIN contrib[td.checkbox.value]
    /\ contrib[td.checkbox.value][NAME] = td.checkbox.id

\* the entry has a list of numbers under "options" exactly if hasOptions
OptionsIff(entry, hasOptions) ==
    /\ OPTIONS \in DOMAIN entry <=> hasOptions
    /\ OPTIONS \in DOMAIN entry => IsNumberList(entry[OPTIONS])

\* the entry has a number under "hidden" exactly if there is a hidden input
HiddenIff(entry, td) ==
    /\ HIDDEN \in DOMAIN entry <=> td.hidden # Absent
    /\ HIDDEN \in DOMAIN entry => IsNumber(entry[HIDDEN])

\* what the cell just handled contributed, with hasOptions(td) telling when
\* an options list is due
Contribution(hasOptions(_)) ==
    Handled =>
        LET td == PeriodCells[el_i]
        IN  IF td.checkbox.disabled THEN DOMAIN last_item = {}
            ELSE /\ OneEntry(td, last_item)
                 /\ OptionsIff(last_item[td.checkbox.value], hasOptions(td))
                 /\ HiddenIff(last_item[td.checkbox.value], td)

\* the keys of the result are the values of the enabled checkboxes of the
\* period's cells; each entry is the one of the last such checkbox
OnlyPeriodCells ==
    (InElements /\ pc = "done") =>
        LET enabled == {i \in 1..Len(PeriodCells) : ~PeriodCells[i].checkbox.disabled}
        IN  /\ DOMAIN ret = {PeriodCells[i].checkbox.value : i \in enabled}
            /\ \A i \in enabled :
                 (\A j \in enabled : j > i =>
                     PeriodCells[j].checkbox.value # PeriodCells[i].checkbox.value)
                 => ret[PeriodCells[i].checkbox.value] =
                        parse_items(PeriodCells[i]).dict[PeriodCells[i].checkbox.value]

\* C10 as stated: for every cell of the period's class, an enabled checkbox
\* gives exactly one entry keyed by its value and named by its id, a disabled
\* one gives no entry and no error, the entry has a numeric options list
\* exactly if the checkbox has a companion select and a numeric hidden
\* default exactly if it has a companion hidden input; cells of other classes
\* contribute nothing.
C10_OptionsIffSelect ==
    /\ Contribution(LAMBDA td : td.select # Absent)
    /\ OnlyPeriodCells

\* the cell that stopped the call
Stopper == PeriodCells[el_i + 1]

\* an error names a cell that cannot be taken in: no element checkbox or a
\* hidden input without a following node (AttributeError), an option value
\* or hidden text that is no number (ValueError)
ErrorsExplained ==
    /\ (InElements /\ pc = "AttributeError") =>
          /\ el_i < Len(PeriodCells)
          /\ \/ Stopper.checkbox = NoBox
             \/ ~Stopper.checkbox.disabled /\ Stopper.hidden = PyNone
    /\ (InElements /\ pc = "ValueError") =>
          /\ el_i < Len(PeriodCells)
          /\ ~Stopper.checkbox.disabled
          /\ \/ \E i \in 1..Len(OptionsOf(Stopper)) :
                    ~parse_number(OptionsOf(Stopper)[i]).ok
             \/ /\ Stopper.hidden \notin {Absent, PyNone}
                /\ ~parse_number(TextStrip(Stopper.hidden)).ok
    /\ InElements => pc \in {"for_td", "done", "AttributeError", "ValueError"}

\* C10, amended: as stated, except that the options list is there exactly if
\* the parent of the checkbox holds at least one option element (a select
\* without option gives none), and that a cell which cannot be taken in ends
\* the call with an error.
C10_OptionsIffOptionElements ==
    /\ Contribution(LAMBDA td : OptionsOf(td) # <<>>)
    /\ OnlyPeriodCells
    /\ ErrorsExplained

\* a page of a three-digit period was read to its end: a cell of another
\* class was passed over, and an enabled checkbox with select and hidden
\* input was taken in
C10_Witness ==
    /\ InElements /\ pc = "done" /\ aggrg_periods = 801
    /\ \E i \in 1..Len(tds) : tds[i].kikan # "8"
    /\ Handled
    /\ ~PeriodCells[el_i].checkbox.disabled
    /\ OPTIONS \in DOMAIN last_item[PeriodCells[el_i].checkbox.value]

(***************************************************************************)
(* The program: one call of one entry point                                *)
(***************************************************************************)
InitSmaster ==
    /\ fn = "read_smaster" /\ pc = "for_line" /\ ret = <<>>
    /\ file \in Files
    /\ lineno = 0 /\ line = <<>> /\ start = 0 /\ col = 0
    /\ row = <<>> /\ row_list = <<>>
    /\ StationsIdle /\ NumberIdle /\ DownloadIdle /\ ReadCsvIdle /\ HtmlIdle /\ ElementsIdle

InitStations ==
    /\ fn = "get_stations" /\ pc = "stations" /\ ret = <<>>
    /\ soup \in Pages
    /\ stations = <<>> /\ parsed = <<>> /\ st_i = 0
    /\ SmasterIdle /\ NumberIdle /\ DownloadIdle /\ ReadCsvIdle /\ HtmlIdle /\ ElementsIdle

InitNumber ==
    /\ fn = "parse_number" /\ pc = "try" /\ ret = <<>>
    /\ num_str \in NumStrings
    /\ SmasterIdle /\ StationsIdle /\ DownloadIdle /\ ReadCsvIdle /\ HtmlIdle /\ ElementsIdle

InitDownload ==
    /\ fn = "get_weather_as_csv" /\ pc = "params" /\ ret = <<>>
    /\ args \in Calls
    /\ params = NoParams
    /\ SmasterIdle /\ StationsIdle /\ NumberIdle /\ ReadCsvIdle /\ HtmlIdle /\ ElementsIdle

InitReadCsv ==
    /\ fn = "read_csv" /\ pc = "split" /\ ret = <<>>
    /\ csv_text \in CsvTexts
    /\ lines = <<>> /\ buf = <<>> /\ hdr4 = <<>> /\ df_cols = <<>> /\ df_rows = <<>>
    /\ SmasterIdle /\ StationsIdle /\ NumberIdle /\ DownloadIdle /\ HtmlIdle /\ ElementsIdle

InitHtml ==
    /\ fn = "get_weather_from_html" /\ pc = "find" /\ ret = <<>>
    /\ page \in Htmls
    /\ rows = <<>> /\ data = <<>> /\ ht_i = 0
    /\ SmasterIdle /\ StationsIdle /\ NumberIdle /\ DownloadIdle /\ ReadCsvIdle
    /\ ElementsIdle

InitElements ==
    /\ fn = "get_elements" /\ pc = "for_td" /\ ret = <<>>
    /\ aggrg_periods \in Periods
    /\ tds \in ElementPages
    /\ items = <<>> /\ last_item = <<>> /\ el_i = 0
    /\ SmasterIdle /\ StationsIdle /\ NumberIdle /\ DownloadIdle /\ ReadCsvIdle
    /\ HtmlIdle

Init ==
    \/ InitSmaster \/ InitStations \/ InitNumber \/ InitDownload
    \/ InitReadCsv \/ InitHtml \/ InitElements

Next ==
    \/ SmNextLine \/ SmField \/ SmEndRow \/ SmReturn
    \/ StStations \/ StParsed \/ StUpdate \/ StReturn
    \/ PnInt \/ PnFloat
    \/ DlParams \/ DlPost
    \/ RcSplit \/ RcRead \/ RcDropLevel \/ RcFromTuples
    \/ HtFindRows \/ HtRow \/ HtReturn
    \/ ElCell \/ ElReturn

Spec == Init /\ [][Next]_vars
====
